---- MODULE Spec2Model ----
(***************************************************************************)
(* ALTCHA starter server (src/src/index.ts): the three Hono handlers       *)
(* GET /altcha, POST /submit and POST /submit_spam_filter, stepped at      *)
(* their await points, over the altcha-lib operations they call            *)
(* (createChallenge, verifySolution, verifyServerSignature,                *)
(* verifyFieldsHash).  SHA-256 and HMAC are symbolic and collision free:   *)
(* a digest is the text "H(<algorithm>:<preimage>)", a MAC is the text     *)
(* "M(<key>,<message>)".                                                   *)
(***************************************************************************)
EXTENDS Integers, Sequences, FiniteSets, TLC

VARIABLES ALTCHA_HMAC_KEY, now, req, issued, history

vars == <<ALTCHA_HMAC_KEY, now, req, issued, history>>

(***************************************************************************)
(* Bounds                                                                  *)
(***************************************************************************)
\* maxNumber of GET /altcha (50_000 in index.ts:39), scaled down
maxNumber == 2
\* the clock runs over 0..MaxTime
MaxTime == 1
\* number of handlers in flight at once in SpecConc
NReq == 2

(***************************************************************************)
(* Values                                                                  *)
(***************************************************************************)
Keys == {"k1", "k2"}
Numbers == 0..maxNumber
DEFAULT_ALG == "SHA-256"
\* An optional value is <<>> (absent) or <<v>> (present).
Opt(S) == {<<>>} \cup {<<v>> : v \in S}
\* A salt: random text, optionally carrying an expiry marker (seconds).
\* Faulty variant: GET /altcha passes an expires option.
ServerSaltsExpiring == [rand : {"a", "b"}, expires : {<<0>>}]

\* The salts GET /altcha gets: its options name no expiry.
ServerSalts == [rand : {"a", "b"}, expires : {<<>>}]
Salts == [rand : {"a", "b"}, expires : Opt({0})]

(***************************************************************************)
(* Primitives                                                              *)
(***************************************************************************)
hashHex(algorithm, text) == "H(" \o algorithm \o ":" \o text \o ")"

hmacHex(text, hmacKey) == "M(" \o hmacKey \o "," \o text \o ")"

RECURSIVE Join(_, _)
Join(seq, sep) ==
  IF seq = <<>> THEN ""
  ELSE IF Len(seq) = 1 THEN seq[1]
  ELSE seq[1] \o sep \o Join(Tail(seq), sep)

\* The salt as text: the random part, then the expiry marker when set.
SaltText(salt) ==
  salt.rand \o (IF salt.expires = <<>> THEN ""
                ELSE "?expires=" \o ToString(salt.expires[1]))

(***************************************************************************)
(* ChallengeIssuer                                                         *)
(***************************************************************************)
createChallenge(hmacKey, maxnumber, salt, number) ==
  LET challenge == hashHex(DEFAULT_ALG, SaltText(salt) \o ToString(number))
  IN [algorithm |-> DEFAULT_ALG,
      challenge |-> challenge,
      maxnumber |-> maxnumber,
      salt      |-> salt,
      signature |-> hmacHex(challenge, hmacKey)]

(***************************************************************************)
(* Wire formats                                                            *)
(***************************************************************************)
\* The solution payload the widget submits (base64 of JSON on the wire).
Payload(c, number) ==
  [algorithm |-> c.algorithm,
   challenge |-> c.challenge,
   number    |-> number,
   salt      |-> c.salt,
   signature |-> c.signature]

FieldNames == {"email", "message"}
FieldValues == {"", "x"}
\* Submitted form fields other than altcha: a field is absent or has a value.
Forms == [FieldNames -> Opt(FieldValues)]
FieldLists == {<<>>, <<"email">>, <<"email", "message">>}

formDataGet(formData, field) ==
  IF field \in DOMAIN formData THEN formData[field] ELSE <<>>

\* Canonical serialization of VerificationData: fixed field order.
canonicalSerialize(vd) ==
  "classification=" \o vd.classification
  \o (IF vd.fields = <<>> THEN ""
      ELSE "&fields=" \o Join(vd.fields[1], ","))
  \o (IF vd.fieldsHash = <<>> THEN ""
      ELSE "&fieldsHash=" \o vd.fieldsHash[1])

\* The hash the classifier computes over the named fields of a form.
fieldsHashOf(formData, fields) ==
  hashHex(DEFAULT_ALG,
          Join([i \in 1..Len(fields) |->
                  LET v == formDataGet(formData, fields[i])
                  IN IF v = <<>> THEN "" ELSE v[1]],
               "\n"))

NoSolution ==
  [algorithm |-> "", challenge |-> "", number |-> 0,
   salt |-> [rand |-> "", expires |-> <<>>], signature |-> ""]
NoVerificationData ==
  [classification |-> "", fields |-> <<>>, fieldsHash |-> <<>>]
NoServerSignature ==
  [verificationData |-> NoVerificationData, signature |-> ""]
NoForm == [f \in FieldNames |-> <<>>]

(***************************************************************************)
(* SolutionVerifier                                                        *)
(***************************************************************************)
\* Step 1: the altcha string decodes into the payload fields.
decodes(altcha) == altcha.kind = "payload"

\* Step 2: hash(algorithm, salt || number) = challenge.
hashCheck(payload) ==
  hashHex(payload.algorithm, SaltText(payload.salt) \o ToString(payload.number))
    = payload.challenge

\* Step 3: HMAC(secretKey, challenge) = signature.
signatureCheck(payload, hmacKey) ==
  hmacHex(payload.challenge, hmacKey) = payload.signature

\* Step 4: the salt carries an expiry marker that lies in the past.
expired(payload, clock) ==
  payload.salt.expires # <<>> /\ payload.salt.expires[1] < clock

verifySolution(altcha, hmacKey, checkExpires, clock) ==
  /\ decodes(altcha)
  /\ hashCheck(altcha.solution)
  /\ signatureCheck(altcha.solution, hmacKey)
  /\ ~(checkExpires /\ expired(altcha.solution, clock))

(***************************************************************************)
(* SignedPayloadVerifier                                                   *)
(***************************************************************************)
\* The signature is HMAC(secretKey, canonicalSerialize(verificationData)).
serverSignatureCheck(server, hmacKey) ==
  hmacHex(canonicalSerialize(server.verificationData), hmacKey) = server.signature

\* On a mismatch the decoded data comes back with verified = false: it is
\* untrusted, and the caller must not use it.
verifyServerSignature(altcha, hmacKey) ==
  IF ~decodes(altcha)
  THEN [verified |-> FALSE, verificationData |-> <<>>]
  ELSE [verified |-> serverSignatureCheck(altcha.server, hmacKey),
        verificationData |-> <<altcha.server.verificationData>>]

(***************************************************************************)
(* FieldBinder                                                             *)
(***************************************************************************)
verifyFieldsHash(formData, fields, fieldsHash) ==
  fieldsHashOf(formData, fields) = fieldsHash

(***************************************************************************)
(* Requests and responses                                                  *)
(***************************************************************************)
\* The altcha form field: absent, the empty string, text that does not
\* decode, or an encoded payload (a solution or a server signature).
AltchaField(kind, solution, server) ==
  [kind |-> kind, solution |-> solution, server |-> server]

\* A request body: whether it parses as form data, and its fields.
Body(parses, altcha, form) ==
  [parses |-> parses, altcha |-> altcha, form |-> form]

NoBody == Body(FALSE, AltchaField("missing", NoSolution, NoServerSignature), NoForm)

Response(status, error) ==
  [kind |-> "json", status |-> status, error |-> error, success |-> FALSE,
   challenge |-> <<>>, data |-> <<>>, verificationData |-> <<>>]

\* An exception that leaves the handler instead of becoming a response.
Uncaught ==
  [kind |-> "uncaught", status |-> 0, error |-> "", success |-> FALSE,
   challenge |-> <<>>, data |-> <<>>, verificationData |-> <<>>]

\* A handler slot: its position, the request body (from which formData and
\* altcha are read once it has parsed) and the handler's other constants.
Idle ==
  [pc |-> "idle", route |-> "", body |-> NoBody,
   verified |-> FALSE, verificationData |-> <<>>,
   clock |-> <<>>, resp |-> <<>>]

(***************************************************************************)
(* GET /altcha                                                             *)
(***************************************************************************)
\* Faulty variant: the response carries the number the challenge was made for.
AltchaOkWithNumber(challenge) ==
  [Response(200, "") EXCEPT !.challenge =
     <<[algorithm |-> challenge.algorithm,
        challenge |-> challenge.challenge,
        maxnumber |-> challenge.maxnumber,
        salt      |-> challenge.salt,
        signature |-> challenge.signature,
        number    |-> CHOOSE n \in Numbers :
                        challenge.challenge =
                          hashHex(challenge.algorithm,
                                  SaltText(challenge.salt) \o ToString(n))]>>]

AltchaOk(challenge) ==
  [Response(200, "") EXCEPT !.challenge = <<challenge>>]

\* Faulty variant: no catch block, the exception leaves the handler.
AltchaUncaught == Uncaught

AltchaCaught == Response(500, "Failed to create challenge")

\* Faulty variant: the key is drawn in the handler, at every request.
StartAltchaNewKey(r) ==
  /\ req[r].pc = "idle"
  /\ req' = [req EXCEPT ![r] = [Idle EXCEPT !.pc = "createChallenge",
                                            !.route = "altcha"]]
  /\ ALTCHA_HMAC_KEY' \in Keys
  /\ UNCHANGED <<now, issued>>

StartAltcha(r) ==
  /\ req[r].pc = "idle"
  /\ req' = [req EXCEPT ![r] = [Idle EXCEPT !.pc = "createChallenge",
                                            !.route = "altcha"]]
  /\ UNCHANGED <<ALTCHA_HMAC_KEY, now, issued>>

\* await createChallenge(...) resolves with a challenge
AltchaCreated(r) ==
  /\ req[r].pc = "createChallenge"
  /\ \E salt \in ServerSalts, number \in Numbers :
       LET challenge == createChallenge(ALTCHA_HMAC_KEY, maxNumber, salt, number)
       IN /\ req' = [req EXCEPT ![r].pc = "done",
                                ![r].resp = <<AltchaOk(challenge)>>]
          /\ issued' = <<[challenge |-> challenge, number |-> number]>>
  /\ UNCHANGED <<ALTCHA_HMAC_KEY, now>>

\* await createChallenge(...) rejects: the catch block answers
AltchaFailed(r) ==
  /\ req[r].pc = "createChallenge"
  /\ req' = [req EXCEPT ![r].pc = "done", ![r].resp = <<AltchaCaught>>]
  /\ UNCHANGED <<ALTCHA_HMAC_KEY, now, issued>>

(***************************************************************************)
(* POST /submit                                                            *)
(***************************************************************************)
\* Faulty variant: altcha === null, the empty string passes.
altchaMissingNullOnly(altcha) == altcha.kind = "missing"

\* !altcha : formData.get returned null, or the empty string
altchaMissing(altcha) == altcha.kind \in {"missing", "empty"}

PayloadMissing == Response(400, "Altcha payload missing")

InvalidPayload == Response(400, "Invalid Altcha payload")

\* Faulty variant: no catch block, the exception leaves the handler.
SubmitUncaught == Uncaught

SubmitCaught == Response(500, "Failed to process submission")

SubmitSuccess(formData) ==
  [Response(200, "") EXCEPT !.success = TRUE, !.data = <<formData>>]

\* Faulty variants of the call: expiry not checked; a key other than the process's.
submitVerifyNoExpiry(altcha, clock) ==
  verifySolution(altcha, ALTCHA_HMAC_KEY, FALSE, clock)

submitVerifyFixedKey(altcha, clock) ==
  verifySolution(altcha, "k1", TRUE, clock)

\* Two payloads built on one challenge: all but the number agree.
SameChallenge(p, q) ==
  /\ p.algorithm = q.algorithm
  /\ p.challenge = q.challenge
  /\ p.salt = q.salt
  /\ p.signature = q.signature

\* Faulty variants of the call: a server that remembers the challenges it has
\* rejected a submission for; a server that remembers the payloads it has
\* verified and verifies each once.
submitVerifyNoRetry(altcha, clock) ==
  /\ verifySolution(altcha, ALTCHA_HMAC_KEY, TRUE, clock)
  /\ ~\E a \in history.answers :
        ~a.verified /\ SameChallenge(a.payload, altcha.solution)

submitVerifyOnce(altcha, clock) ==
  /\ verifySolution(altcha, ALTCHA_HMAC_KEY, TRUE, clock)
  /\ ~\E a \in history.answers : a.verified /\ a.payload = altcha.solution

\* verifySolution(String(altcha), ALTCHA_HMAC_KEY): checkExpires defaults to true
submitVerify(altcha, clock) ==
  verifySolution(altcha, ALTCHA_HMAC_KEY, TRUE, clock)

\* Faulty variants of the test of the result: inverted; left out.
SubmitResultInverted(verified, formData) ==
  IF verified THEN InvalidPayload ELSE SubmitSuccess(formData)

SubmitResultAlways(verified, formData) == SubmitSuccess(formData)

SubmitResult(verified, formData) ==
  IF ~verified THEN InvalidPayload ELSE SubmitSuccess(formData)

\* Faulty variant: formData is one variable of the module, shared by the handlers.
sharedFormData(r) == req[1].body.form

\* the handler's own formData and altcha constants
formDataOf(r) == req[r].body.form

altchaOf(r) == req[r].body.altcha

StartSubmit(r, body) ==
  /\ req[r].pc = "idle"
  /\ req' = [req EXCEPT ![r] = [Idle EXCEPT !.pc = "formData",
                                            !.route = "submit",
                                            !.body = body]]
  /\ UNCHANGED <<ALTCHA_HMAC_KEY, now, issued>>

\* await c.req.formData() settles; the altcha field is read and tested
SubmitFormData(r) ==
  /\ req[r].pc = "formData"
  /\ req[r].route = "submit"
  /\ LET body == req[r].body
     IN req' = [req EXCEPT ![r] =
          IF ~body.parses
          THEN [@ EXCEPT !.pc = "done", !.resp = <<SubmitCaught>>]
          ELSE IF altchaMissing(body.altcha)
          THEN [@ EXCEPT !.pc = "done", !.resp = <<PayloadMissing>>]
          ELSE [@ EXCEPT !.pc = "verifySolution"]]
  /\ UNCHANGED <<ALTCHA_HMAC_KEY, now, issued>>

\* await verifySolution(...) resolves; the handler answers
SubmitVerified(r) ==
  /\ req[r].pc = "verifySolution"
  /\ LET verified == submitVerify(altchaOf(r), now)
     IN req' = [req EXCEPT ![r].pc = "done",
                           ![r].verified = verified,
                           ![r].clock = <<now>>,
                           ![r].resp = <<SubmitResult(verified, formDataOf(r))>>]
  /\ UNCHANGED <<ALTCHA_HMAC_KEY, now, issued>>

(***************************************************************************)
(* POST /submit_spam_filter                                                *)
(***************************************************************************)
SpamCaught == Response(500, "Failed to process submission with spam filter")

ClassifiedAsSpam == Response(400, "Classified as spam")

InvalidFieldsHash == Response(400, "Invalid fields hash")

SpamSuccess(formData, verificationData) ==
  [Response(200, "") EXCEPT !.success = TRUE, !.data = <<formData>>,
                            !.verificationData = <<verificationData>>]

\* verifyServerSignature(String(altcha), ALTCHA_HMAC_KEY)
spamVerify(altcha) == verifyServerSignature(altcha, ALTCHA_HMAC_KEY)

\* Faulty variant: only the presence of the data is tested.
notVerifiedDataOnly(result) == result.verificationData = <<>>

\* !verified || !verificationData
notVerified(result) == ~result.verified \/ result.verificationData = <<>>

\* Faulty variant: an empty fieldsHash counts as present.
fieldsAndHashPresent(vd) == vd.fields # <<>> /\ vd.fieldsHash # <<>>

\* fields && fieldsHash : an array is truthy, the empty string is not
fieldsAndHash(vd) ==
  /\ vd.fields # <<>>
  /\ vd.fieldsHash # <<>>
  /\ vd.fieldsHash[1] # ""

\* Faulty variant: the fields are checked before the classification.
spamDecisionFieldsFirst(vd) ==
  IF fieldsAndHash(vd) THEN "verifyFieldsHash"
  ELSE IF vd.classification = "BAD" THEN "spam"
  ELSE "ok"

\* the if / else if / else over the verified data
spamDecision(vd) ==
  IF vd.classification = "BAD" THEN "spam"
  ELSE IF fieldsAndHash(vd) THEN "verifyFieldsHash"
  ELSE "ok"

\* Faulty variant: the result of verifyFieldsHash is not tested.
FieldsResultIgnored(matches, formData, vd) == SpamSuccess(formData, vd)

FieldsResult(matches, formData, vd) ==
  IF ~matches THEN InvalidFieldsHash ELSE SpamSuccess(formData, vd)

StartSpam(r, body) ==
  /\ req[r].pc = "idle"
  /\ req' = [req EXCEPT ![r] = [Idle EXCEPT !.pc = "formData",
                                            !.route = "submit_spam_filter",
                                            !.body = body]]
  /\ UNCHANGED <<ALTCHA_HMAC_KEY, now, issued>>

\* await c.req.formData() settles; the altcha field is read and tested
SpamFormData(r) ==
  /\ req[r].pc = "formData"
  /\ req[r].route = "submit_spam_filter"
  /\ LET body == req[r].body
     IN req' = [req EXCEPT ![r] =
          IF ~body.parses
          THEN [@ EXCEPT !.pc = "done", !.resp = <<SpamCaught>>]
          ELSE IF altchaMissing(body.altcha)
          THEN [@ EXCEPT !.pc = "done", !.resp = <<PayloadMissing>>]
          ELSE [@ EXCEPT !.pc = "verifyServerSignature"]]
  /\ UNCHANGED <<ALTCHA_HMAC_KEY, now, issued>>

\* await verifyServerSignature(...) resolves; the handler answers, or goes on
\* to await verifyFieldsHash(...)
SpamVerified(r) ==
  /\ req[r].pc = "verifyServerSignature"
  /\ LET result == spamVerify(altchaOf(r))
         local == [req[r] EXCEPT !.verified = result.verified,
                                 !.verificationData = result.verificationData]
     IN req' = [req EXCEPT ![r] =
          IF notVerified(result)
          THEN [local EXCEPT !.pc = "done", !.resp = <<InvalidPayload>>]
          ELSE LET vd == result.verificationData[1]
                   decision == spamDecision(vd)
               IN IF decision = "spam"
                  THEN [local EXCEPT !.pc = "done", !.resp = <<ClassifiedAsSpam>>]
                  ELSE IF decision = "verifyFieldsHash"
                  THEN [local EXCEPT !.pc = "verifyFieldsHash"]
                  ELSE [local EXCEPT !.pc = "done",
                                     !.resp = <<SpamSuccess(formDataOf(r), vd)>>]]
  /\ UNCHANGED <<ALTCHA_HMAC_KEY, now, issued>>

\* await verifyFieldsHash(formData, fields, fieldsHash) resolves
SpamFieldsVerified(r) ==
  /\ req[r].pc = "verifyFieldsHash"
  /\ LET vd == req[r].verificationData[1]
         matches == verifyFieldsHash(formDataOf(r), vd.fields[1], vd.fieldsHash[1])
     IN req' = [req EXCEPT ![r].pc = "done",
                           ![r].resp = <<FieldsResult(matches, formDataOf(r), vd)>>]
  /\ UNCHANGED <<ALTCHA_HMAC_KEY, now, issued>>

(***************************************************************************)
(* The response is sent; the clock                                         *)
(***************************************************************************)
Finish(r) ==
  /\ req[r].pc = "done"
  /\ req' = [req EXCEPT ![r] = Idle]
  /\ UNCHANGED <<ALTCHA_HMAC_KEY, now, issued>>

Tick ==
  /\ now < MaxTime
  /\ now' = now + 1
  /\ UNCHANGED <<ALTCHA_HMAC_KEY, req, issued>>

(***************************************************************************)
(* Request bodies                                                          *)
(***************************************************************************)
SampleForm == [f \in FieldNames |-> <<"x">>]

\* A challenge made under key k for number n, submitted with number m.
Solutions ==
  {Payload(createChallenge(k, maxNumber, s, n), m) :
     k \in Keys, s \in Salts, n \in Numbers, m \in Numbers}

\* A solution, or a solution with one of its fields replaced.
Tampered(p) ==
  {p, [p EXCEPT !.challenge = "junk"], [p EXCEPT !.signature = "junk"]}
  \cup {[p EXCEPT !.salt = s] : s \in Salts}

SolutionPayloads == UNION {Tampered(p) : p \in Solutions}

UndecodableFields ==
  {AltchaField(kind, NoSolution, NoServerSignature) :
     kind \in {"missing", "empty", "garbage"}}

SubmitBodies ==
  {Body(FALSE, NoBody.altcha, NoForm)}
  \cup {Body(TRUE, a, SampleForm) : a \in UndecodableFields}
  \cup {Body(TRUE, AltchaField("payload", p, NoServerSignature), SampleForm) :
          p \in SolutionPayloads}

\* The forms the classifier scored.
ClassifiedForms == {[email |-> <<"">>, message |-> <<"x">>]}

\* The forms submitted with a server signature.
SubmittedForms ==
  {f \in Forms : f.message = <<"x">> \/ (f.email = <<"">> /\ f.message = <<"">>)}

\* What a classifier may say about form o.
VerificationDatas(o) ==
  UNION {[classification : {"GOOD", "BAD"},
          fields : {fields},
          fieldsHash : {<<>>, <<"">>} \cup
                       (IF fields = <<>> THEN {}
                        ELSE {<<fieldsHashOf(o, fields[1])>>})] :
         fields \in Opt(FieldLists)}

Signed(vd, k) ==
  [verificationData |-> vd, signature |-> hmacHex(canonicalSerialize(vd), k)]

\* A signed record, or one with a field of its data changed after signing.
Mutated(sp) ==
  {sp,
   [sp EXCEPT !.verificationData.classification =
                 IF @ = "BAD" THEN "GOOD" ELSE "BAD"],
   [sp EXCEPT !.verificationData.fields =
                 IF @ = <<>> THEN <<<<"email">>>> ELSE <<>>],
   [sp EXCEPT !.verificationData.fieldsHash =
                 IF @ = <<>> THEN <<"junk">> ELSE <<>>]}

ServerSignatures ==
  UNION {Mutated(Signed(vd, k)) :
           vd \in UNION {VerificationDatas(o) : o \in ClassifiedForms},
           k \in Keys}

SpamBodies ==
  {Body(FALSE, NoBody.altcha, NoForm)}
  \cup {Body(TRUE, a, SampleForm) : a \in UndecodableFields}
  \cup {Body(TRUE, AltchaField("payload", NoSolution, sp), form) :
          sp \in ServerSignatures, form \in SubmittedForms}

(***************************************************************************)
(* Specification: one handler at a time, every body                        *)
(***************************************************************************)
\* What an observer of the server has seen since the last challenge was
\* issued: when it was issued, and what POST /submit answered to each payload.
\* The handlers keep no such record; it is written down for the properties,
\* and only by the specification that submits payloads again.
NoHistory == [at |-> <<>>, answers |-> {}]

InitOver(slots) ==
  /\ ALTCHA_HMAC_KEY \in Keys
  /\ now = 0
  /\ req = [r \in slots |-> Idle]
  /\ issued = <<>>
  /\ history = NoHistory

Init == InitOver({1})

Next ==
  \/ \E r \in DOMAIN req : StartAltcha(r) /\ UNCHANGED history
  \/ \E r \in DOMAIN req : AltchaCreated(r) /\ UNCHANGED history
  \/ \E r \in DOMAIN req : AltchaFailed(r) /\ UNCHANGED history
  \/ \E r \in DOMAIN req : \E body \in SubmitBodies : StartSubmit(r, body) /\ UNCHANGED history
  \/ \E r \in DOMAIN req : SubmitFormData(r) /\ UNCHANGED history
  \/ \E r \in DOMAIN req : SubmitVerified(r) /\ UNCHANGED history
  \/ \E r \in DOMAIN req : \E body \in SpamBodies : StartSpam(r, body) /\ UNCHANGED history
  \/ \E r \in DOMAIN req : SpamFormData(r) /\ UNCHANGED history
  \/ \E r \in DOMAIN req : SpamVerified(r) /\ UNCHANGED history
  \/ \E r \in DOMAIN req : SpamFieldsVerified(r) /\ UNCHANGED history
  \/ \E r \in DOMAIN req : Finish(r) /\ UNCHANGED history
  \/ Tick /\ UNCHANGED history

Spec == Init /\ [][Next]_vars

(***************************************************************************)
(* Specification: handlers interleaved at their await points               *)
(***************************************************************************)
ConcSlots == 1..NReq

ConcSubmitBodies ==
  {Body(TRUE, a, NoForm) : a \in {x \in UndecodableFields : x.kind = "garbage"}}
  \cup {Body(TRUE,
             AltchaField("payload",
                         Payload(createChallenge("k1", maxNumber, s, 0), 0),
                         NoServerSignature),
             SampleForm) :
          s \in {x \in Salts : x.rand = "a"}}

ConcSpamBodies ==
  {Body(TRUE, AltchaField("payload", NoSolution, Signed(vd, "k1")), form) :
     vd \in {x \in UNION {VerificationDatas(o) : o \in ClassifiedForms} :
               /\ x.classification = "GOOD"
               /\ x.fields = <<<<"email", "message">>>>
               /\ x.fieldsHash \notin {<<>>, <<"">>}},
     form \in ClassifiedForms \cup {SampleForm}}
  \cup {Body(FALSE, NoBody.altcha, NoForm)}

InitConc == InitOver(ConcSlots)

NextConc ==
  \/ \E r \in DOMAIN req : StartAltcha(r) /\ UNCHANGED history
  \/ \E r \in DOMAIN req : AltchaCreated(r) /\ UNCHANGED history
  \/ \E r \in DOMAIN req : AltchaFailed(r) /\ UNCHANGED history
  \/ \E r \in DOMAIN req : \E body \in ConcSubmitBodies : StartSubmit(r, body) /\ UNCHANGED history
  \/ \E r \in DOMAIN req : SubmitFormData(r) /\ UNCHANGED history
  \/ \E r \in DOMAIN req : SubmitVerified(r) /\ UNCHANGED history
  \/ \E r \in DOMAIN req : \E body \in ConcSpamBodies : StartSpam(r, body) /\ UNCHANGED history
  \/ \E r \in DOMAIN req : SpamFormData(r) /\ UNCHANGED history
  \/ \E r \in DOMAIN req : SpamVerified(r) /\ UNCHANGED history
  \/ \E r \in DOMAIN req : SpamFieldsVerified(r) /\ UNCHANGED history
  \/ \E r \in DOMAIN req : Finish(r) /\ UNCHANGED history
  \/ Tick /\ UNCHANGED history

SpecConc == InitConc /\ [][NextConc]_vars

(***************************************************************************)
(* Specification: challenges issued, solved and submitted again            *)
(***************************************************************************)
\* Submissions built on one challenge for number 0, with and without an
\* expiry, carrying the right number or a wrong one.
ReplaySubmitBodies ==
  {Body(TRUE,
        AltchaField("payload",
                    Payload(createChallenge("k1", maxNumber, s, 0), m),
                    NoServerSignature),
        SampleForm) :
     s \in {x \in Salts : x.rand = "a"}, m \in {0, maxNumber}}

\* The observer notes the issue of a challenge and starts a new record.
RecordIssued == history' = [at |-> <<now>>, answers |-> {}]

\* The observer notes what request r was answered.
RecordAnswer(r) ==
  history' = [history EXCEPT !.answers =
                @ \cup {[payload |-> req[r].body.altcha.solution,
                         verified |-> req'[r].verified,
                         clock |-> now]}]

InitReplay == InitOver({1})

NextReplay ==
  \/ \E r \in DOMAIN req : StartAltcha(r) /\ UNCHANGED history
  \/ \E r \in DOMAIN req : AltchaCreated(r) /\ RecordIssued
  \/ \E r \in DOMAIN req : AltchaFailed(r) /\ UNCHANGED history
  \/ \E r \in DOMAIN req : \E body \in ReplaySubmitBodies :
       StartSubmit(r, body) /\ UNCHANGED history
  \/ \E r \in DOMAIN req : SubmitFormData(r) /\ UNCHANGED history
  \/ \E r \in DOMAIN req : SubmitVerified(r) /\ RecordAnswer(r)
  \/ \E r \in DOMAIN req : Finish(r) /\ UNCHANGED history
  \/ Tick /\ UNCHANGED history

SpecReplay == InitReplay /\ [][NextReplay]_vars

(***************************************************************************)
(* Properties                                                              *)
(***************************************************************************)
Slots == DOMAIN req

\* Handler r has answered.
Done(r) == req[r].pc = "done"

Resp(r) == req[r].resp[1]

\* Handler r of POST /submit has answered a request whose altcha field
\* decoded into a solution payload.
SubmitDecoded(r) ==
  /\ Done(r)
  /\ req[r].route = "submit"
  /\ req[r].body.parses
  /\ req[r].body.altcha.kind = "payload"

Solution(r) == req[r].body.altcha.solution

IsSuccess(resp) ==
  resp.kind = "json" /\ resp.status = 200 /\ resp.success /\ resp.error = ""

IsRejection(resp, error) ==
  resp.kind = "json" /\ resp.status = 400 /\ ~resp.success /\ resp.error = error

\* The payload carries the challenge, salt and signature GET /altcha issued last.
CarriesIssued(payload) ==
  /\ issued # <<>>
  /\ payload.algorithm = issued[1].challenge.algorithm
  /\ payload.challenge = issued[1].challenge.challenge
  /\ payload.salt = issued[1].challenge.salt
  /\ payload.signature = issued[1].challenge.signature

\* C1: round trip.  A POST /submit that carries the challenge, salt and
\* signature issued by GET /altcha is answered with success when its number is
\* the one chosen at issuance, and with 400 'Invalid Altcha payload' when its
\* number is another one of 0..maxNumber whose hash differs from the challenge.
C1_RoundTrip ==
  \A r \in Slots :
    (SubmitDecoded(r) /\ CarriesIssued(Solution(r))) =>
      /\ Solution(r).number = issued[1].number => IsSuccess(Resp(r))
      /\ ( /\ Solution(r).number \in Numbers
           /\ Solution(r).number # issued[1].number
           /\ ~hashCheck(Solution(r)) )
         => IsRejection(Resp(r), "Invalid Altcha payload")

C1_Witness ==
  \E r \in Slots :
    /\ SubmitDecoded(r)
    /\ CarriesIssued(Solution(r))
    /\ Solution(r).number = issued[1].number
    /\ IsSuccess(Resp(r))

\* The same payload with one of number, salt, challenge, signature replaced.
Challenges == {p.challenge : p \in SolutionPayloads}
Signatures == {p.signature : p \in SolutionPayloads}
OneFieldChanged(p) ==
  ({[p EXCEPT !.number = x] : x \in Numbers}
   \cup {[p EXCEPT !.salt = x] : x \in Salts}
   \cup {[p EXCEPT !.challenge = x] : x \in Challenges}
   \cup {[p EXCEPT !.signature = x] : x \in Signatures}) \ {p}

\* C2 as stated: POST /submit verifies a decoded payload if and only if its
\* hash check and its signature check pass.
C2_Original ==
  \A r \in Slots :
    SubmitDecoded(r) =>
      (IsSuccess(Resp(r)) <=>
         (hashCheck(Solution(r)) /\ signatureCheck(Solution(r), ALTCHA_HMAC_KEY)))

\* C2 as amended: POST /submit verifies a decoded payload if and only if its
\* hash check and its signature check pass and its salt carries no expiry
\* marker that lies in the past; a payload that differs in exactly one of
\* number, salt, challenge, signature from a payload that verifies is rejected.
C2_VerifyIff ==
  \A r \in Slots :
    SubmitDecoded(r) =>
      LET p == Solution(r)
          clock == req[r].clock[1]
      IN /\ IsSuccess(Resp(r)) <=>
              /\ hashCheck(p)
              /\ signatureCheck(p, ALTCHA_HMAC_KEY)
              /\ ~expired(p, clock)
         /\ ~IsSuccess(Resp(r)) => IsRejection(Resp(r), "Invalid Altcha payload")
         /\ (\E q \in OneFieldChanged(p) :
               /\ hashCheck(q)
               /\ signatureCheck(q, ALTCHA_HMAC_KEY)
               /\ ~expired(q, clock))
            => IsRejection(Resp(r), "Invalid Altcha payload")

C2_Witness ==
  \E r \in Slots :
    /\ SubmitDecoded(r)
    /\ \E q \in OneFieldChanged(Solution(r)) :
         /\ q.number # Solution(r).number
         /\ hashCheck(q)
         /\ signatureCheck(q, ALTCHA_HMAC_KEY)
         /\ ~expired(q, req[r].clock[1])
    /\ signatureCheck(Solution(r), ALTCHA_HMAC_KEY)
    /\ IsRejection(Resp(r), "Invalid Altcha payload")

\* The signature is the HMAC of some challenge under a key other than the
\* process's.
SignedWithOtherKey(payload) ==
  \E k \in Keys \ {ALTCHA_HMAC_KEY} :
    \E c \in Challenges : payload.signature = hmacHex(c, k)

\* C3: forgery resistance.  POST /submit never answers with success a payload
\* whose signature was computed with a key other than ALTCHA_HMAC_KEY, even
\* when its hash check passes; a payload answered with success carries the
\* HMAC of its challenge under ALTCHA_HMAC_KEY.
C3_NoForgery ==
  \A r \in Slots :
    SubmitDecoded(r) =>
      /\ SignedWithOtherKey(Solution(r)) => ~IsSuccess(Resp(r))
      /\ IsSuccess(Resp(r)) =>
           Solution(r).signature = hmacHex(Solution(r).challenge, ALTCHA_HMAC_KEY)

C3_Witness ==
  \E r \in Slots :
    /\ SubmitDecoded(r)
    /\ hashCheck(Solution(r))
    /\ ~expired(Solution(r), req[r].clock[1])
    /\ SignedWithOtherKey(Solution(r))
    /\ IsRejection(Resp(r), "Invalid Altcha payload")

\* Handler r of POST /submit_spam_filter has answered a request whose altcha
\* field decoded into a signed record.
SpamDecoded(r) ==
  /\ Done(r)
  /\ req[r].route = "submit_spam_filter"
  /\ req[r].body.parses
  /\ req[r].body.altcha.kind = "payload"

Server(r) == req[r].body.altcha.server

Data(r) == Server(r).verificationData

\* C4: in POST /submit_spam_filter a record that verifies under
\* ALTCHA_HMAC_KEY and says BAD is answered 400 'Classified as spam', whatever
\* its fields and fieldsHash and whatever the form; no request whose record
\* says BAD is answered with success.
C4_SpamRejected ==
  \A r \in Slots :
    (SpamDecoded(r) /\ Data(r).classification = "BAD") =>
      /\ ~IsSuccess(Resp(r))
      /\ serverSignatureCheck(Server(r), ALTCHA_HMAC_KEY)
           => IsRejection(Resp(r), "Classified as spam")

C4_Witness ==
  \E r \in Slots :
    /\ SpamDecoded(r)
    /\ Data(r).classification = "BAD"
    /\ serverSignatureCheck(Server(r), ALTCHA_HMAC_KEY)
    /\ fieldsAndHash(Data(r))
    /\ ~verifyFieldsHash(req[r].body.form, Data(r).fields[1], Data(r).fieldsHash[1])
    /\ IsRejection(Resp(r), "Classified as spam")

\* The value FieldBinder reads for a field: an absent field reads as empty.
FieldValue(form, field) ==
  IF field \in DOMAIN form /\ form[field] # <<>> THEN form[field][1] ELSE ""

SameNamedFields(form, o, fields) ==
  \A i \in 1..Len(fields) : FieldValue(form, fields[i]) = FieldValue(o, fields[i])

\* The record verifies, does not say BAD, and carries fields and a fieldsHash.
FieldsChecked(r) ==
  /\ SpamDecoded(r)
  /\ serverSignatureCheck(Server(r), ALTCHA_HMAC_KEY)
  /\ Data(r).classification # "BAD"
  /\ fieldsAndHash(Data(r))

\* C5: field binding.  When the verified record does not say BAD and carries
\* fields and a fieldsHash computed over a form o, the request is answered with
\* success exactly when every named field of the submitted form has the value
\* it has in o (an absent field reading as empty), and with 400 'Invalid fields
\* hash' otherwise.
C5_FieldBinding ==
  \A r \in Slots :
    FieldsChecked(r) =>
      LET fields == Data(r).fields[1]
          form == req[r].body.form
      IN /\ IsSuccess(Resp(r)) \/ IsRejection(Resp(r), "Invalid fields hash")
         /\ \A o \in Forms :
              Data(r).fieldsHash[1] = fieldsHashOf(o, fields) =>
                (IsSuccess(Resp(r)) <=> SameNamedFields(form, o, fields))
         /\ (\A o \in Forms : Data(r).fieldsHash[1] # fieldsHashOf(o, fields))
              => ~IsSuccess(Resp(r))

C5_Witness ==
  \E r \in Slots :
    /\ FieldsChecked(r)
    /\ Data(r).fields[1] = <<"email", "message">>
    /\ \E o \in ClassifiedForms :
         /\ Data(r).fieldsHash[1] = fieldsHashOf(o, Data(r).fields[1])
         /\ FieldValue(req[r].body.form, "email") = FieldValue(o, "email")
         /\ FieldValue(req[r].body.form, "message") # FieldValue(o, "message")
    /\ IsRejection(Resp(r), "Invalid fields hash")

AllVerificationDatas == {sp.verificationData : sp \in ServerSignatures}

\* The signature was made over data that differs from the data sent.
ChangedAfterSigning(server) ==
  \E vd \in AllVerificationDatas \ {server.verificationData} :
    \E k \in Keys : server.signature = hmacHex(canonicalSerialize(vd), k)

\* C6: a record whose verificationData was changed after signing does not
\* verify, and POST /submit_spam_filter answers 400 'Invalid Altcha payload'
\* whatever the classification, fields and fieldsHash of the changed data.
C6_TamperedData ==
  \A r \in Slots :
    (SpamDecoded(r) /\ ChangedAfterSigning(Server(r))) =>
      /\ ~req[r].verified
      /\ IsRejection(Resp(r), "Invalid Altcha payload")

C6_Witness ==
  \E r \in Slots :
    /\ SpamDecoded(r)
    /\ Data(r).classification = "GOOD"
    /\ \E vd \in AllVerificationDatas :
         /\ vd.classification = "BAD"
         /\ vd.fields = Data(r).fields
         /\ vd.fieldsHash = Data(r).fieldsHash
         /\ Server(r).signature = hmacHex(canonicalSerialize(vd), ALTCHA_HMAC_KEY)
    /\ IsRejection(Resp(r), "Invalid Altcha payload")

\* C7: expiry.  POST /submit rejects a payload whose salt carries an expiry
\* marker that lies in the past, and rejects a payload whose hash or signature
\* check fails whether its marker is past, not past, or absent.
C7_Expiry ==
  \A r \in Slots :
    SubmitDecoded(r) =>
      LET p == Solution(r)
      IN /\ expired(p, req[r].clock[1])
              => IsRejection(Resp(r), "Invalid Altcha payload")
         /\ (~hashCheck(p) \/ ~signatureCheck(p, ALTCHA_HMAC_KEY))
              => IsRejection(Resp(r), "Invalid Altcha payload")

C7_Witness ==
  \E r \in Slots :
    /\ SubmitDecoded(r)
    /\ hashCheck(Solution(r))
    /\ signatureCheck(Solution(r), ALTCHA_HMAC_KEY)
    /\ Solution(r).salt.expires = <<0>>
    /\ req[r].clock = <<1>>
    /\ IsRejection(Resp(r), "Invalid Altcha payload")

\* A verification failure of the request handler r has answered.
VerificationFailure(r) ==
  LET body == req[r].body
  IN \/ ~body.parses
     \/ body.altcha.kind # "payload"
     \/ /\ req[r].route = "submit"
        /\ \/ ~hashCheck(body.altcha.solution)
           \/ ~signatureCheck(body.altcha.solution, ALTCHA_HMAC_KEY)
           \/ expired(body.altcha.solution, req[r].clock[1])
     \/ /\ req[r].route = "submit_spam_filter"
        /\ \/ ~serverSignatureCheck(body.altcha.server, ALTCHA_HMAC_KEY)
           \/ body.altcha.server.verificationData.classification = "BAD"
           \/ /\ fieldsAndHash(body.altcha.server.verificationData)
              /\ ~verifyFieldsHash(body.form,
                                   body.altcha.server.verificationData.fields[1],
                                   body.altcha.server.verificationData.fieldsHash[1])

\* C8: every answer of POST /submit and POST /submit_spam_filter is a JSON
\* response, never an exception that leaves the handler; a malformed payload,
\* a hash or signature mismatch, an expired challenge, a BAD classification and
\* a fields mismatch are each answered with a non-success error response, with
\* status 400 when the body parsed as form data.
C8_NoUncaught ==
  \A r \in Slots :
    (Done(r) /\ req[r].route \in {"submit", "submit_spam_filter"}) =>
      /\ Resp(r).kind = "json"
      /\ Resp(r).status \in {200, 400, 500}
      /\ VerificationFailure(r) =>
           /\ ~Resp(r).success
           /\ Resp(r).error # ""
           /\ Resp(r).status = IF req[r].body.parses THEN 400 ELSE 500

C8_Witness ==
  \E r \in Slots :
    /\ Done(r)
    /\ req[r].route = "submit_spam_filter"
    /\ req[r].body.parses
    /\ req[r].body.altcha.kind = "garbage"
    /\ IsRejection(Resp(r), "Invalid Altcha payload")

\* GET /altcha handler r has answered a failure of createChallenge.
CreateFailed(r) ==
  /\ Done(r)
  /\ req[r].route = "altcha"
  /\ Resp(r).challenge = <<>>

\* C9 as stated: a failure of challenge creation is fatal and not per
\* request: once GET /altcha has hit one, the process takes no further request.
C9_Original ==
  [][(\E r \in Slots : CreateFailed(r)) =>
       (\A s \in Slots : req[s].pc = "idle" => req'[s].pc = "idle")]_vars

\* C9 as amended: a failure of challenge creation is answered by the handler
\* that hit it, as a JSON response 500 'Failed to create challenge' without a
\* challenge, while the other handlers go on; a challenge that is issued is
\* made under ALTCHA_HMAC_KEY for a number of 0..maxNumber and carries the
\* configured maxnumber unchanged.
C9_PerRequestFailure ==
  \A r \in Slots :
    (Done(r) /\ req[r].route = "altcha") =>
      /\ Resp(r).kind = "json"
      /\ ~Resp(r).success
      /\ IF Resp(r).challenge = <<>>
         THEN /\ Resp(r).status = 500
              /\ Resp(r).error = "Failed to create challenge"
              /\ \A s \in Slots \ {r} :
                   req[s].pc = "idle" => ENABLED StartAltcha(s)
         ELSE /\ Resp(r).status = 200
              /\ Resp(r).challenge[1].maxnumber = maxNumber
              /\ \E n \in Numbers :
                   Resp(r).challenge[1] =
                     createChallenge(ALTCHA_HMAC_KEY, maxNumber,
                                     Resp(r).challenge[1].salt, n)

C9_Witness ==
  \E r, s \in Slots :
    /\ CreateFailed(r)
    /\ Resp(r).status = 500
    /\ Done(s)
    /\ req[s].route = "altcha"
    /\ Resp(s).challenge # <<>>

\* What a handler answers when it runs alone, from its request body, the
\* process key and the clock it read.
AloneSubmit(body, clock) ==
  IF ~body.parses THEN SubmitCaught
  ELSE IF altchaMissing(body.altcha) THEN PayloadMissing
  ELSE SubmitResult(submitVerify(body.altcha, clock[1]), body.form)

AloneSpam(body) ==
  IF ~body.parses THEN SpamCaught
  ELSE IF altchaMissing(body.altcha) THEN PayloadMissing
  ELSE LET result == spamVerify(body.altcha)
       IN IF notVerified(result) THEN InvalidPayload
          ELSE LET vd == result.verificationData[1]
                   decision == spamDecision(vd)
               IN IF decision = "spam" THEN ClassifiedAsSpam
                  ELSE IF decision = "verifyFieldsHash"
                  THEN FieldsResult(verifyFieldsHash(body.form, vd.fields[1],
                                                     vd.fieldsHash[1]),
                                    body.form, vd)
                  ELSE SpamSuccess(body.form, vd)

AloneAltcha ==
  {AltchaCaught}
  \cup {AltchaOk(createChallenge(ALTCHA_HMAC_KEY, maxNumber, salt, number)) :
          salt \in ServerSalts, number \in Numbers}

\* C10: whatever the interleaving of the handlers at their await points, each
\* request is answered as it would be had its handler run alone.
C10_NoInterference ==
  \A r \in Slots :
    Done(r) =>
      CASE req[r].route = "submit" -> Resp(r) = AloneSubmit(req[r].body, req[r].clock)
        [] req[r].route = "submit_spam_filter" -> Resp(r) = AloneSpam(req[r].body)
        [] OTHER -> Resp(r) \in AloneAltcha

C10_Witness ==
  \E r, s \in Slots :
    /\ r < s
    /\ Done(r) /\ Done(s)
    /\ req[s].route = "submit_spam_filter"
    /\ req[r].route = "submit"
    /\ req[r].body.form # req[s].body.form
    /\ IsSuccess(Resp(r))
    /\ IsSuccess(Resp(s))
    /\ Resp(s).data = <<req[s].body.form>>

(***************************************************************************)
(* Specification: every handler that has started goes on                   *)
(***************************************************************************)
\* A step of handler r past one of its await points.
HandlerStep(r) ==
  /\ \/ AltchaCreated(r)
     \/ AltchaFailed(r)
     \/ SubmitFormData(r)
     \/ SubmitVerified(r)
     \/ SpamFormData(r)
     \/ SpamVerified(r)
     \/ SpamFieldsVerified(r)
  /\ UNCHANGED history

\* The awaited calls settle (they are bounded computations over the request)
\* and the event loop runs the continuation of every settled promise.
SpecLive == Init /\ [][Next]_vars /\ \A r \in {1} : WF_vars(HandlerStep(r))

\* The positions a handler may move to from each position.
Successors(pc) ==
  CASE pc = "idle" -> {"createChallenge", "formData"}
    [] pc = "createChallenge" -> {"done"}
    [] pc = "formData" -> {"verifySolution", "verifyServerSignature", "done"}
    [] pc = "verifySolution" -> {"done"}
    [] pc = "verifyServerSignature" -> {"verifyFieldsHash", "done"}
    [] pc = "verifyFieldsHash" -> {"done"}
    [] pc = "done" -> {"idle"}

\* The outcomes of POST /submit_spam_filter that follow a verified record.
AfterVerified(resp) ==
  \/ IsSuccess(resp)
  \/ IsRejection(resp, "Classified as spam")
  \/ IsRejection(resp, "Invalid fields hash")

\* A handler has one response exactly when it is done; the spam filter's
\* classification and field check are reached with a record whose signature
\* verifies under ALTCHA_HMAC_KEY only.
C11_Outcomes ==
  \A r \in Slots :
    /\ Len(req[r].resp) = (IF Done(r) THEN 1 ELSE 0)
    /\ req[r].route = "submit_spam_filter" =>
         /\ (Done(r) /\ AfterVerified(Resp(r))) =>
              /\ req[r].body.altcha.kind = "payload"
              /\ serverSignatureCheck(Server(r), ALTCHA_HMAC_KEY)
         /\ req[r].pc = "verifyFieldsHash" =>
              serverSignatureCheck(Server(r), ALTCHA_HMAC_KEY)

\* A handler moves along the edges of Successors, and its response is not
\* changed once it is made.
C11_Steps ==
  \A r \in Slots :
    /\ req'[r].pc # req[r].pc => req'[r].pc \in Successors(req[r].pc)
    /\ (Done(r) /\ req'[r].pc = "done") => req'[r] = req[r]

\* C11: per-request state machine.  Every request moves from its arrival
\* through the pending verification to one response; on the spam path
\* success, 'Classified as spam' and 'Invalid fields hash' are answered to a
\* verified record only; the response, once made, is the only one and is not
\* changed; every request that has started is eventually answered.
C11_StateMachine ==
  /\ []C11_Outcomes
  /\ [][C11_Steps]_vars
  /\ \A r \in {1} : (req[r].pc # "idle") ~> Done(r)

C11_Witness ==
  \E r \in Slots :
    /\ SpamDecoded(r)
    /\ req[r].verified
    /\ fieldsAndHash(Data(r))
    /\ IsSuccess(Resp(r))

\* Since the challenge was issued POST /submit has rejected a submission built
\* on the challenge of payload p.
RejectedBefore(p) ==
  \E a \in history.answers : ~a.verified /\ SameChallenge(a.payload, p)

\* C12 as stated: once a submission built on the issued challenge has been
\* rejected, no later submission built on that challenge is verified.
C12_Original ==
  \A r \in Slots :
    (SubmitDecoded(r) /\ CarriesIssued(Solution(r)) /\ RejectedBefore(Solution(r)))
      => ~IsSuccess(Resp(r))

\* C12 as amended: a rejection is the end of its own request only.  After a
\* submission built on the issued challenge has been rejected, a later
\* submission built on the same challenge is answered with success exactly
\* when it carries the number chosen at issuance, and with 400 'Invalid
\* Altcha payload' otherwise.
C12_RejectionNotRemembered ==
  \A r \in Slots :
    (SubmitDecoded(r) /\ CarriesIssued(Solution(r)) /\ RejectedBefore(Solution(r)))
      => /\ IsSuccess(Resp(r)) <=> Solution(r).number = issued[1].number
         /\ ~IsSuccess(Resp(r)) => IsRejection(Resp(r), "Invalid Altcha payload")

C12_Witness ==
  \E r \in Slots :
    /\ SubmitDecoded(r)
    /\ CarriesIssued(Solution(r))
    /\ RejectedBefore(Solution(r))
    /\ Solution(r).number = issued[1].number
    /\ IsSuccess(Resp(r))

\* At an earlier time since the challenge was issued POST /submit has
\* verified the very payload of request r.
VerifiedBefore(r) ==
  \E a \in history.answers :
    /\ a.verified
    /\ a.payload = Solution(r)
    /\ a.clock < req[r].clock[1]

\* C15: stateless replay.  A payload that POST /submit has verified is
\* answered with success again at every later submission whose time is not
\* past the expiry of its salt, and rejected once it is; a handler that is
\* not running holds nothing of the requests it has answered.
C15_StatelessReplay ==
  \A r \in Slots :
    /\ (SubmitDecoded(r) /\ VerifiedBefore(r)) =>
         /\ ~expired(Solution(r), req[r].clock[1]) => IsSuccess(Resp(r))
         /\ expired(Solution(r), req[r].clock[1])
              => IsRejection(Resp(r), "Invalid Altcha payload")
    /\ req[r].pc = "idle" => req[r] = Idle

C15_Witness ==
  \E r \in Slots :
    /\ SubmitDecoded(r)
    /\ VerifiedBefore(r)
    /\ IsSuccess(Resp(r))

\* GET /altcha handler r has answered with a challenge.
Issued(r) ==
  /\ Done(r)
  /\ req[r].route = "altcha"
  /\ Resp(r).challenge # <<>>

\* Every challenge issued and every payload or record verified goes with the
\* one key: the last challenge issued and every challenge in a response are
\* signed under ALTCHA_HMAC_KEY, whatever POST /submit answers with success is
\* signed under it, whatever POST /submit_spam_filter takes for verified is
\* signed under it, and the issued challenge with its number is verified.
C13_OneKey ==
  /\ issued # <<>> =>
       issued[1].challenge.signature =
         hmacHex(issued[1].challenge.challenge, ALTCHA_HMAC_KEY)
  /\ \A r \in Slots :
       /\ Issued(r) =>
            Resp(r).challenge[1].signature =
              hmacHex(Resp(r).challenge[1].challenge, ALTCHA_HMAC_KEY)
       /\ SubmitDecoded(r) =>
            /\ IsSuccess(Resp(r)) =>
                 Solution(r).signature =
                   hmacHex(Solution(r).challenge, ALTCHA_HMAC_KEY)
            /\ (CarriesIssued(Solution(r))
                  /\ Solution(r).number = issued[1].number)
                 => IsSuccess(Resp(r))
       /\ (SpamDecoded(r) /\ AfterVerified(Resp(r))) =>
            Server(r).signature =
              hmacHex(canonicalSerialize(Data(r)), ALTCHA_HMAC_KEY)

\* C13: key stability.  ALTCHA_HMAC_KEY is fixed when the process starts and
\* no step of any handler changes it; the key POST /submit and POST
\* /submit_spam_filter verify with is the key GET /altcha issued with.
C13_KeyStability ==
  /\ []C13_OneKey
  /\ [][ALTCHA_HMAC_KEY' = ALTCHA_HMAC_KEY]_vars

C13_Witness ==
  \E r \in Slots :
    /\ SubmitDecoded(r)
    /\ CarriesIssued(Solution(r))
    /\ ALTCHA_HMAC_KEY = "k2"
    /\ req[r].clock = <<MaxTime>>
    /\ IsSuccess(Resp(r))

\* C14: issuance postcondition.  Every challenge GET /altcha answers with is
\* made for a number of 0..maxNumber: its challenge is the hash of its salt
\* followed by that number, its signature is the HMAC of the challenge under
\* ALTCHA_HMAC_KEY and it states maxNumber; the response has the five fields
\* algorithm, challenge, maxnumber, salt, signature and no number, and the
\* handler holds nothing but that response.
C14_Issuance ==
  \A r \in Slots :
    Issued(r) =>
      LET c == Resp(r).challenge[1]
      IN /\ DOMAIN c = {"algorithm", "challenge", "maxnumber", "salt", "signature"}
         /\ \E n \in 0..maxNumber :
              c.challenge = hashHex(c.algorithm, SaltText(c.salt) \o ToString(n))
         /\ c.signature = hmacHex(c.challenge, ALTCHA_HMAC_KEY)
         /\ c.maxnumber = maxNumber
         /\ Resp(r).status = 200
         /\ req[r] = [Idle EXCEPT !.pc = "done", !.route = "altcha",
                                  !.resp = req[r].resp]
         /\ Resp(r) = [Response(200, "") EXCEPT !.challenge = <<c>>]

C14_Witness ==
  \E r \in Slots :
    /\ Issued(r)
    /\ issued # <<>>
    /\ issued[1].challenge = Resp(r).challenge[1]
    /\ issued[1].number = maxNumber

\* The record of request r verifies under ALTCHA_HMAC_KEY and does not say BAD.
VerifiedNotBad(r) ==
  /\ req[r].route = "submit_spam_filter"
  /\ req[r].body.parses
  /\ req[r].body.altcha.kind = "payload"
  /\ serverSignatureCheck(Server(r), ALTCHA_HMAC_KEY)
  /\ Data(r).classification # "BAD"

\* The record carries fields (a list of names) and a fieldsHash that is not
\* the empty string.
BothPresent(vd) == vd.fields # <<>> /\ vd.fieldsHash \notin {<<>>, <<"">>}

\* C16: the field check is optional.  POST /submit_spam_filter awaits
\* verifyFieldsHash, and answers 400 'Invalid fields hash', only for a record
\* that verifies, does not say BAD and carries both fields and a non-empty
\* fieldsHash; a verified record that does not say BAD and lacks fields, or
\* lacks fieldsHash, or carries an empty one, is answered with success, the
\* submitted form and the record, whatever the form.
C16_OptionalFieldCheck ==
  \A r \in Slots :
    /\ ( \/ req[r].pc = "verifyFieldsHash"
         \/ (Done(r) /\ req[r].route = "submit_spam_filter"
                     /\ IsRejection(Resp(r), "Invalid fields hash")) )
       => (VerifiedNotBad(r) /\ BothPresent(Data(r)))
    /\ (Done(r) /\ VerifiedNotBad(r) /\ ~BothPresent(Data(r))) =>
         /\ IsSuccess(Resp(r))
         /\ Resp(r).data = <<req[r].body.form>>
         /\ Resp(r).verificationData = <<Data(r)>>

C16_Witness ==
  \E r \in Slots :
    /\ Done(r)
    /\ VerifiedNotBad(r)
    /\ Data(r).fields = <<<<"email", "message">>>>
    /\ Data(r).fieldsHash = <<"">>
    /\ req[r].body.form \notin ClassifiedForms
    /\ IsSuccess(Resp(r))

\* The request of handler r parsed and has no altcha field, or an empty one.
NoAltcha(r) ==
  /\ req[r].route \in {"submit", "submit_spam_filter"}
  /\ req[r].body.parses
  /\ req[r].body.altcha.kind \in {"missing", "empty"}

\* C17: missing payload.  A POST /submit or POST /submit_spam_filter whose
\* form has no altcha field, or an empty one, is answered 400 'Altcha payload
\* missing'; its handler is never at the await of a verifier, takes no
\* verification result and never answers with success.
C17_PayloadMissing ==
  \A r \in Slots :
    NoAltcha(r) =>
      /\ req[r].pc \in {"formData", "done"}
      /\ ~req[r].verified
      /\ req[r].verificationData = <<>>
      /\ req[r].clock = <<>>
      /\ Done(r) => IsRejection(Resp(r), "Altcha payload missing")

C17_Witness ==
  \E r \in Slots :
    /\ Done(r)
    /\ NoAltcha(r)
    /\ req[r].route = "submit_spam_filter"
    /\ req[r].body.altcha.kind = "empty"
    /\ IsRejection(Resp(r), "Altcha payload missing")

\* C18: no expiry on issued challenges.  The salt of every challenge GET
\* /altcha answers with, and of the challenge issued last, carries no expiry
\* marker, so it is expired at no time; a POST /submit that carries the
\* issued challenge with the number chosen at issuance is answered with
\* success at whatever time it is verified.
C18_NoExpiry ==
  /\ issued # <<>> =>
       /\ issued[1].challenge.salt.expires = <<>>
       /\ \A t \in 0..MaxTime :
            ~expired(Payload(issued[1].challenge, issued[1].number), t)
  /\ \A r \in Slots :
       /\ Issued(r) => Resp(r).challenge[1].salt.expires = <<>>
       /\ (SubmitDecoded(r) /\ CarriesIssued(Solution(r))
             /\ Solution(r).number = issued[1].number)
            => (req[r].clock[1] \in 0..MaxTime /\ IsSuccess(Resp(r)))

\* Issued at time 0, verified at the latest time.
C18_Witness ==
  \E r \in Slots :
    /\ SubmitDecoded(r)
    /\ CarriesIssued(Solution(r))
    /\ Solution(r).number = issued[1].number
    /\ history.at = <<0>>
    /\ MaxTime > 0
    /\ req[r].clock = <<MaxTime>>
    /\ IsSuccess(Resp(r))

====
